---- MODULE Spec2Model ----
(***************************************************************************)
(* OCR orchestration of the PDF reader: the useOcr hook                    *)
(* (src/src/hooks/useOcr.js) over the zustand store                        *)
(* (src/src/state/useStore.js).                                            *)
(*                                                                         *)
(* The hook runs on one JavaScript thread.  A step of the model is one     *)
(* run-to-completion piece of JavaScript: an event handler or the          *)
(* continuation of an await, together with every call it makes.            *)
(* The suspension points are createWorker(), worker.terminate() and        *)
(* worker.recognize().                                                     *)
(***************************************************************************)
EXTENDS Integers, Sequences, FiniteSets, TLC

(***************************************************************************)
(* Bounds of the model.                                                    *)
(***************************************************************************)
MaxCalls == 3        \* runOcr calls made by the application in one behaviour
MaxInits == 2        \* initWorker calls in one behaviour (mount included)
MaxClock == 52       \* addOcrLog calls in a behaviour of the log alone
MaxDocs == 3         \* documents opened in one behaviour (the first included)

Langs == {"eng", "fra"}
\* The rendered canvas of each page; the second one exceeds MAX_OCR_DIM.
SmallCanvas == [width |-> 800, height |-> 600]
LargeCanvas == [width |-> 5000, height |-> 3000]

Null == "null"                  \* null in a string-valued place
NoRequest == [empty |-> TRUE]   \* pendingRef.current === null
NoWorker == 0                   \* workerRef.current === null
NoEvent == [none |-> TRUE]      \* the last step was not a logger call

(***************************************************************************)
(* Program constants.                                                      *)
(***************************************************************************)
MAX_OCR_DIM == 2400
MaxLogEntries == 50
MinZoom == 250                  \* 0.25, in thousandths
MaxZoom == 5000                 \* 5, in thousandths
DefaultZoom == 1000             \* 1.0, in thousandths

(***************************************************************************)
(* Requests: the arguments of runOcr, and the contents of pendingRef.      *)
(***************************************************************************)
\* Zoom factors are in thousandths: 1.000 and 1.004 both print as "1.00".
\* A canvas shows a page of the document it was rendered from.
NoDoc == 0                      \* pdfDoc === null, pdfUrl === null
FirstDoc == 1
Surface(size, doc) == [width |-> size.width, height |-> size.height, doc |-> doc]

RequestsOf(doc) ==
  { [canvas |-> Surface(SmallCanvas, doc), pageNumber |-> 1, zoom |-> 1000, forceRun |-> FALSE],
    [canvas |-> Surface(SmallCanvas, doc), pageNumber |-> 1, zoom |-> 1004, forceRun |-> TRUE],
    [canvas |-> Surface(LargeCanvas, doc), pageNumber |-> 2, zoom |-> 1000, forceRun |-> TRUE] }

Requests == RequestsOf(FirstDoc)

\* An order in which the application may submit the requests, and the place
\* of a request in it (0 for a request that is not in it).
SubmissionOrder ==
  << [canvas |-> Surface(SmallCanvas, FirstDoc), pageNumber |-> 1, zoom |-> 1000, forceRun |-> FALSE],
     [canvas |-> Surface(SmallCanvas, FirstDoc), pageNumber |-> 1, zoom |-> 1004, forceRun |-> TRUE],
     [canvas |-> Surface(LargeCanvas, FirstDoc), pageNumber |-> 2, zoom |-> 1000, forceRun |-> TRUE] >>

Place(req) ==
  IF \E n \in 1..Len(SubmissionOrder) : SubmissionOrder[n] = req
    THEN CHOOSE n \in 1..Len(SubmissionOrder) : SubmissionOrder[n] = req
    ELSE 0

VARIABLES
  \* ---- store (useStore.js) ----
  ocrLanguage, ocrCache, ocrLoading, ocrProgress,
  workerReady, workerInitProgress, workerInitStatus, ocrLog,
  \* ---- document part of the store and of usePdfDocument ----
  pdfUrl, pdfDoc, pdfLoading, pdfError,
  currentDocRef, \* the ref of usePdfDocument.ts:18
  loads,         \* loadPdf calls suspended at an await
  obtained,      \* documents getDocument() has resolved with
  destroyed,     \* documents destroy() was called on
  zoom,          \* zoom factor, in thousandths
  totalPages, currentPage,
  clock,         \* the time addOcrLog stamps an entry with
  \* ---- refs of the hook (useOcr.js:46-50) ----
  workerRef, workerReadyRef, currentLangRef, pendingRef, isRunningRef,
  \* ---- the closure of the first render, used by initWorker's timer ----
  firstRender,
  \* ---- asynchronous operations in flight ----
  workers,       \* every worker createWorker was asked for: [lang, status]
  inits,         \* initWorker calls suspended at an await
  nInits,        \* initWorker calls made so far
  timers,        \* setTimeout(..., 0) callbacks not yet run, in order
  recognizing,   \* recognize() calls started and not yet settled
  \* ---- what the last step did (observations) ----
  started,       \* recognize() calls issued by the last step
  returned,      \* runOcr promises settled by the last step
  event,         \* status event the logger handled in the last step
  \* ---- bookkeeping of the model ----
  nCalls,        \* runOcr calls made by the application so far
  lastArrived,   \* last request the application submitted that was queued
                 \* behind the recognition now in flight
  newestStarted  \* the largest place in SubmissionOrder of a request whose
                 \* recognition was started

vars == <<ocrLanguage, ocrCache, ocrLoading, ocrProgress,
          workerReady, workerInitProgress, workerInitStatus, ocrLog,
          workerRef, workerReadyRef, currentLangRef, pendingRef, isRunningRef,
          firstRender, workers, inits, nInits, timers, recognizing,
          started, returned, event, nCalls, lastArrived, newestStarted,
          pdfUrl, pdfDoc, pdfLoading, pdfError, currentDocRef, loads,
          obtained, destroyed, zoom, totalPages, currentPage, clock>>

docVars == <<pdfUrl, pdfDoc, pdfLoading, pdfError, currentDocRef, loads,
            obtained, destroyed>>

viewVars == <<zoom, totalPages, currentPage>>

(***************************************************************************)
(* Strings are sequences of characters.  A character is a blank or a       *)
(* glyph; the glyph the engine reads tells which engine language read it.  *)
(***************************************************************************)
Blank == " "

\* String.prototype.trim: drop leading and trailing blanks
RECURSIVE TrimLeft(_)
TrimLeft(s) == IF s # <<>> /\ Head(s) = Blank THEN TrimLeft(Tail(s)) ELSE s

RECURSIVE TrimRight(_)
TrimRight(s) ==
  IF s # <<>> /\ s[Len(s)] = Blank THEN TrimRight(SubSeq(s, 1, Len(s) - 1)) ELSE s

\* (mutant: only leading blanks are dropped)
TrimLeftOnly(s) == TrimLeft(s)
Trim(s) == TrimRight(TrimLeft(s))

\* what recognize() may read from a canvas with an engine bound to lang
RawTexts(canvas, lang) ==
  { <<Blank, Blank>>, <<Blank, lang, Blank>> }

(***************************************************************************)
(* The cache key (useOcr.js:130, OcrPanel.jsx:42) is a string, modelled as *)
(* the sequence of its characters; the language code is kept in one piece. *)
(* A zoom factor is given in thousandths.                                  *)
(***************************************************************************)
DigitChars == <<"0", "1", "2", "3", "4", "5", "6", "7", "8", "9">>

\* String(n) of a non-negative integer: its decimal digits
RECURSIVE Digits(_)
Digits(n) ==
  IF n < 10 THEN <<DigitChars[n + 1]>>
            ELSE Digits(n \div 10) \o <<DigitChars[(n % 10) + 1]>>

\* the integer n for which n / 100 is nearest to the zoom factor (the larger
\* one of two); an exact tie only happens for a factor a double represents
\* exactly
Hundredths(z) == (z + 5) \div 10

\* (mutant: one decimal is printed)
ToFixed1(z) ==
  Digits(((z + 50) \div 100) \div 10) \o <<".">> \o Digits(((z + 50) \div 100) % 10)
\* Number.prototype.toFixed(2): integer part, point, two decimals
ToFixed2(z) ==
  Digits(Hundredths(z) \div 100) \o <<".">>
    \o Digits((Hundredths(z) \div 10) % 10) \o Digits(Hundredths(z) % 10)

\* `${pageNumber}:${zoom.toFixed(2)}:${ocrLanguage}`
CacheKey(pageNumber, z, lang) ==
  Digits(pageNumber) \o <<":">> \o ToFixed2(z) \o <<":">> \o <<lang>>

(***************************************************************************)
(* Store setters.                                                          *)
(***************************************************************************)
Min(a, b) == IF a < b THEN a ELSE b

\* (mutant: the log is not cut)
addOcrLogUncapped(log, message) == <<message>> \o log
\* addOcrLog: newest first, at most MaxLogEntries entries
addOcrLog(log, message) ==
  SubSeq(<<message>> \o log, 1, Min(Len(log) + 1, MaxLogEntries))

\* setOcrResult: { ...s.ocrCache, [key]: text }
setOcrResult(cache, key, text) ==
  [k \in (DOMAIN cache) \cup {key} |-> IF k = key THEN text ELSE cache[k]]

EmptyCache == [k \in {} |-> <<>>]

Max(a, b) == IF a > b THEN a ELSE b

\* the number of pages of a document of the model
numPages(doc) == doc + 1

\* setPdfDoc: { pdfDoc: doc, totalPages: doc ? doc.numPages : 0, currentPage: 1 }
setPdfDoc(doc) ==
  [pdfDoc |-> doc, totalPages |-> IF doc # NoDoc THEN numPages(doc) ELSE 0,
   currentPage |-> 1]

\* (mutant: the page is only kept from exceeding totalPages)
setCurrentPageNoFloor(page, total) == Min(page, total)
\* setCurrentPage: Math.max(1, Math.min(page, s.totalPages))
setCurrentPage(page, total) == Max(1, Min(page, total))

\* setZoom: Math.max(0.25, Math.min(5, z)), in thousandths
setZoom(z) == Max(MinZoom, Min(MaxZoom, z))

(***************************************************************************)
(* Image preprocessing of runOcr (useOcr.js:166-179): the size of the      *)
(* surface handed to recognize().                                          *)
(***************************************************************************)
NeedsDownsample(canvas) == canvas.width > MAX_OCR_DIM \/ canvas.height > MAX_OCR_DIM

(***************************************************************************)
(* The arithmetic of lines 170-173 is done in IEEE-754 doubles:            *)
(*   ratio = Math.min(MAX_OCR_DIM / width, MAX_OCR_DIM / height)           *)
(* is the double nearest to MAX_OCR_DIM / larger, and side * ratio is      *)
(* rounded to the nearest double again before Math.floor.  The model       *)
(* computes both roundings exactly, with small integers:                   *)
(*   ratio = m * 2^-k, where m has MantissaBits bits and                   *)
(*   MAX_OCR_DIM * 2^k = m * larger + RatioError(larger),                  *)
(* so that side * ratio = side * MAX_OCR_DIM / larger                      *)
(*                        - side * RatioError(larger) / (larger * 2^k).    *)
(***************************************************************************)
MantissaBits == 53

Larger(canvas) ==
  IF canvas.width >= canvas.height THEN canvas.width ELSE canvas.height

\* the s >= 0 with 1/2 <= MAX_OCR_DIM * 2^s / larger < 1, for larger >
\* MAX_OCR_DIM; the exponent k of ratio is MantissaBits + s
RECURSIVE RatioExponent(_, _)
RatioExponent(larger, s) ==
  IF 2 * MAX_OCR_DIM * (2 ^ s) < larger THEN RatioExponent(larger, s + 1) ELSE s

\* 2^e modulo n, by squaring
RECURSIVE PowerOfTwoMod(_, _)
PowerOfTwoMod(e, n) ==
  IF e = 0
    THEN 1 % n
    ELSE LET half == PowerOfTwoMod(e \div 2, n)
             square == (half * half) % n
         IN IF e % 2 = 1 THEN (2 * square) % n ELSE square

\* <<q % 2, r>> where MAX_OCR_DIM * 2^k = q * larger + r and 0 <= r < larger,
\* for k >= 1: one doubling after the remainder of MAX_OCR_DIM * 2^(k-1)
Division(larger, k) ==
  LET before == ((MAX_OCR_DIM % larger) * PowerOfTwoMod(k - 1, larger)) % larger
  IN <<((2 * before) \div larger) % 2, (2 * before) % larger>>

\* MAX_OCR_DIM * 2^k - m * larger, with m the integer nearest to
\* MAX_OCR_DIM * 2^k / larger (round to nearest, ties to even)
RatioError(larger) ==
  LET p == Division(larger, MantissaBits + RatioExponent(larger, 0))
      roundsDown == 2 * p[2] < larger \/ (2 * p[2] = larger /\ p[1] = 0)
  IN IF roundsDown THEN p[2] ELSE p[2] - larger

\* the j with 2^j < n <= 2^(j+1): the doubles just below n are 2^(j+1-MantissaBits)
\* apart
RECURSIVE BinadeBelow(_, _)
BinadeBelow(n, j) == IF 2 ^ (j + 1) < n THEN BinadeBelow(n, j + 1) ELSE j

\* Math.floor(side * ratio).  When side * MAX_OCR_DIM / larger is not an
\* integer the two roundings are too small to cross an integer.  When it is
\* an integer n and ratio was rounded down, the product lies below n and
\* Math.floor yields n - 1 unless the product rounds back to n, which it
\* does when it is at most half a spacing below n.
ScaledSide(side, canvas) ==
  LET larger == Larger(canvas)
      exact == (side * MAX_OCR_DIM) \div larger
      fraction == (side * MAX_OCR_DIM) % larger
      err == RatioError(larger)
      roundsBack ==
        2 * side * err
          <= larger * (2 ^ (RatioExponent(larger, 0) + BinadeBelow(exact, -1) + 1))
  IN IF fraction # 0 \/ err <= 0 \/ roundsBack THEN exact ELSE exact - 1

\* the offscreen canvas shows what drawImage copied from the page's canvas
imageSource(canvas) ==
  IF NeedsDownsample(canvas)
    THEN [width  |-> ScaledSide(canvas.width, canvas),
          height |-> ScaledSide(canvas.height, canvas),
          doc    |-> canvas.doc]
    ELSE canvas

(***************************************************************************)
(* runOcr (useOcr.js:129-211) as a function on the state it reads and      *)
(* writes.  st is a record of the store fields and refs; cl is the closure *)
(* the called function was created in (the ocrLanguage and ocrCache of     *)
(* that render); ctxOk tells whether getContext('2d') yields a context.    *)
(* The result is the state at the call's first suspension or return.       *)
(***************************************************************************)
\* How a runOcr promise settled: with a string, with null, or rejected.
\* via tells who made the call: the application ("call"), the replay timer
\* ("timer"), the drain in a finally block ("drain"); "settle" marks the
\* promise of the call whose recognize() settled in this step.
Resolved(req, via, text) ==
  [req |-> req, via |-> via, outcome |-> "string", value |-> text, queued |-> FALSE]
ResolvedNull(req, via) ==
  [req |-> req, via |-> via, outcome |-> "null", value |-> <<>>, queued |-> FALSE]
Rejected(req, via) ==
  [req |-> req, via |-> via, outcome |-> "rejected", value |-> <<>>, queued |-> FALSE]
\* null returned at line 144 or 150, after the request was put in the slot
Queued(req, via) ==
  [req |-> req, via |-> via, outcome |-> "null", value |-> <<>>, queued |-> TRUE]

\* lines 138 and 147: the two admission checks behind the cache check
\* (mutant: only the handle is examined, not the readiness flag)
WorkerUnavailableNoHandle(st) == st.workerRef = NoWorker
WorkerUnavailable(st) == ~st.workerReadyRef \/ st.workerRef = NoWorker
\* (mutant: the in-flight check is missing)
AlreadyRunningNever(st) == FALSE
AlreadyRunning(st) == st.isRunningRef

\* lines 140 and 149: the single pending slot
StorePending(pending, req) == req

\* (mutant: forceRun is not looked at)
CacheHitIgnoresForce(cl, req, cacheKey) == cacheKey \in DOMAIN cl.ocrCache
\* (mutant: an empty cached text counts as absent)
CacheHitTruthy(cl, req, cacheKey) ==
  ~req.forceRun /\ cacheKey \in DOMAIN cl.ocrCache /\ cl.ocrCache[cacheKey] # <<>>
\* line 133: the cache the admission check reads is the closure's
CacheHit(cl, req, cacheKey) == ~req.forceRun /\ cacheKey \in DOMAIN cl.ocrCache

\* (mutant: the catch block stores an empty text for the request)
runOcrCatchStoresEmpty(st, req, via) ==
  [st EXCEPT !.ocrCache = setOcrResult(@, CacheKey(req.pageNumber, req.zoom, "eng"), <<>>),
             !.ocrLog = addOcrLog(@, <<"Error during OCR", req.pageNumber>>),
             !.returned = Append(@, ResolvedNull(req, via))]
\* (mutant: the catch block is missing and the error escapes)
runOcrCatchRethrows(st, req, via) ==
  [st EXCEPT !.returned = Append(@, Rejected(req, via))]
\* lines 195-198: a failure inside the try block becomes a null result
runOcrCatch(st, req, via) ==
  [st EXCEPT !.ocrLog = addOcrLog(@, <<"Error during OCR", req.pageNumber>>),
             !.returned = Append(@, ResolvedNull(req, via))]

RECURSIVE runOcr(_, _, _, _, _)
RECURSIVE runOcrFinally(_, _, _)

\* (mutant: the finally block leaves the recognition progress as it is)
runOcrFinallyKeepsProgress(st, cl, ctxOk) ==
  LET s1 == [st EXCEPT !.isRunningRef = FALSE,
                       !.ocrLoading = FALSE]
  IN IF s1.pendingRef # NoRequest
       THEN runOcr([s1 EXCEPT !.pendingRef = NoRequest], cl, s1.pendingRef, ctxOk, "drain")
       ELSE s1
\* lines 199-210
runOcrFinally(st, cl, ctxOk) ==
  LET s1 == [st EXCEPT !.isRunningRef = FALSE,
                       !.ocrLoading = FALSE,
                       !.ocrProgress = 0]
  IN IF s1.pendingRef # NoRequest
       THEN runOcr([s1 EXCEPT !.pendingRef = NoRequest], cl, s1.pendingRef, ctxOk, "drain")
       ELSE s1

runOcr(st, cl, req, ctxOk, via) ==
  LET cacheKey == CacheKey(req.pageNumber, req.zoom, cl.ocrLanguage) IN
  IF CacheHit(cl, req, cacheKey)
    THEN [st EXCEPT !.ocrLog = addOcrLog(@, <<"OCR skipped", req.pageNumber>>),
                    !.returned = Append(@, Resolved(req, via, cl.ocrCache[cacheKey]))]
  ELSE IF WorkerUnavailable(st)
    THEN [st EXCEPT !.pendingRef = StorePending(@, req),
                    !.ocrLog = IF req.forceRun
                                 THEN addOcrLog(@, <<"Force queued", req.pageNumber>>)
                                 ELSE @,
                    !.returned = Append(@, Queued(req, via))]
  ELSE IF AlreadyRunning(st)
    THEN [st EXCEPT !.pendingRef = StorePending(@, req),
                    !.returned = Append(@, Queued(req, via))]
  ELSE
    LET s1 == [st EXCEPT !.isRunningRef = TRUE,
                         !.ocrLoading = TRUE,
                         !.ocrProgress = 0,
                         !.ocrLog = addOcrLog(@, IF req.forceRun
                                                   THEN <<"Force re-running OCR", req.pageNumber>>
                                                   ELSE <<"Starting OCR", req.pageNumber>>)]
        call == [cl |-> cl, req |-> req, via |-> via, cacheKey |-> cacheKey,
                 worker |-> st.workerRef,
                 status |-> st.workers[st.workerRef].status,
                 image |-> imageSource(req.canvas)]
    IN IF NeedsDownsample(req.canvas) /\ ~ctxOk
         \* ctx is null: line 176 throws inside the try block
         THEN runOcrFinally(runOcrCatch(s1, req, via), cl, ctxOk)
         \* line 181: recognize() is called and awaited
         ELSE [s1 EXCEPT !.recognizing = Append(@, call),
                         !.started = Append(@, call)]

\* lines 182-194 and the finally block: recognize() resolved with text
runOcrResolved(st, call, text, ctxOk) ==
  LET trimmed == Trim(text)
      s1 == [st EXCEPT
               !.ocrCache = setOcrResult(@, call.cacheKey, trimmed),
               !.ocrLog = addOcrLog(@, IF Len(trimmed) > 0
                                         THEN <<"OCR complete", call.req.pageNumber>>
                                         ELSE <<"No text found", call.req.pageNumber>>),
               !.returned = Append(@, Resolved(call.req, "settle", trimmed))]
  IN runOcrFinally(s1, call.cl, ctxOk)

\* (mutant: after a failure the finally block resets the flags but leaves
\* the slot alone)
runOcrRejectedKeepsSlot(st, call, ctxOk) ==
  [runOcrCatch(st, call.req, "settle") EXCEPT !.isRunningRef = FALSE,
                                              !.ocrLoading = FALSE,
                                              !.ocrProgress = 0]
\* (mutant: a failure leaves the function without running the finally block)
runOcrRejectedNoFinally(st, call, ctxOk) == runOcrCatch(st, call.req, "settle")
\* the catch and finally blocks: recognize() rejected
runOcrRejected(st, call, ctxOk) ==
  runOcrFinally(runOcrCatch(st, call.req, "settle"), call.cl, ctxOk)

(***************************************************************************)
(* The state runOcr works on, taken from and written back to the           *)
(* variables.                                                              *)
(***************************************************************************)
Core ==
  [ocrCache |-> ocrCache, ocrLog |-> ocrLog, ocrLoading |-> ocrLoading,
   ocrProgress |-> ocrProgress, pendingRef |-> pendingRef,
   isRunningRef |-> isRunningRef, recognizing |-> recognizing,
   workerRef |-> workerRef, workerReadyRef |-> workerReadyRef,
   workers |-> workers, started |-> <<>>, returned |-> <<>>]

\* the largest place of a request of calls, or newest if that is larger
RECURSIVE Newest(_, _)
Newest(calls, newest) ==
  IF calls = <<>>
    THEN newest
    ELSE Newest(Tail(calls), IF Place(Head(calls).req) > newest
                               THEN Place(Head(calls).req) ELSE newest)

Commit(st) ==
  /\ ocrCache' = st.ocrCache
  /\ ocrLog' = st.ocrLog
  /\ ocrLoading' = st.ocrLoading
  /\ ocrProgress' = st.ocrProgress
  /\ pendingRef' = st.pendingRef
  /\ isRunningRef' = st.isRunningRef
  /\ recognizing' = st.recognizing
  /\ started' = st.started
  /\ returned' = st.returned
  /\ event' = NoEvent
  /\ newestStarted' = Newest(st.started, newestStarted)

\* the closure of the latest render: it captured the store's current values
LatestRender == [ocrLanguage |-> ocrLanguage, ocrCache |-> ocrCache]

\* getContext('2d') is only asked for when the canvas is downsampled
ContextOutcomes(req) ==
  IF req # NoRequest /\ NeedsDownsample(req.canvas) THEN BOOLEAN ELSE {TRUE}

RemoveAt(seq, i) == SubSeq(seq, 1, i - 1) \o SubSeq(seq, i + 1, Len(seq))

\* The hook only writes the log and never reads it.  To keep the log short
\* the model lets the user clear it (ClearOcrLog) before every other step.
LogCleared == ocrLog = <<>>

(***************************************************************************)
(* State after the first render and its effect: initWorker(ocrLanguage)    *)
(* has run up to its await of createWorker (useOcr.js:53-67, 113-114).     *)
(* A first document has been opened and loaded while the engine is being   *)
(* created.                                                                *)
(***************************************************************************)
Init ==
  /\ ocrLanguage = "eng"
  /\ ocrCache = EmptyCache
  /\ ocrLoading = FALSE
  /\ ocrProgress = 0
  /\ workerReady = FALSE
  /\ workerInitProgress = 0
  /\ workerInitStatus = "Starting"
  /\ ocrLog = <<<<"Worker initializing", ocrLanguage>>>>
  /\ workerRef = NoWorker
  /\ workerReadyRef = FALSE
  /\ currentLangRef = Null
  /\ pendingRef = NoRequest
  /\ isRunningRef = FALSE
  /\ firstRender = [ocrLanguage |-> ocrLanguage, ocrCache |-> EmptyCache]
  /\ workers = <<[lang |-> ocrLanguage, status |-> "creating"]>>
  /\ inits = {[id |-> 1, lang |-> ocrLanguage, pc |-> "createWorker", worker |-> 1,
                teardown |-> "none"]}
  /\ nInits = 1
  /\ timers = <<>>
  /\ recognizing = <<>>
  /\ started = <<>>
  /\ returned = <<>>
  /\ event = NoEvent
  /\ pdfUrl = FirstDoc
  /\ pdfDoc = FirstDoc
  /\ pdfLoading = FALSE
  /\ pdfError = Null
  /\ currentDocRef = FirstDoc
  /\ loads = {}
  /\ obtained = {FirstDoc}
  /\ destroyed = {}
  /\ zoom = DefaultZoom
  /\ totalPages = numPages(FirstDoc)
  /\ currentPage = 1
  /\ clock = 0
  /\ nCalls = 0
  /\ lastArrived = NoRequest
  /\ newestStarted = 0

(***************************************************************************)
(* initWorker (useOcr.js:53-111), one action per piece between awaits.     *)
(***************************************************************************)
\* lines 60-67: publish "not ready", log, call createWorker and await it
\* teardown tells how the teardown of lines 54-58 went: "none" when there was
\* no handle, "resolved" or "rejected" for the awaited terminate()
initWorkerCreate(id, lang, teardown) ==
  /\ workerReady' = FALSE
  /\ workerInitProgress' = 0
  /\ workerInitStatus' = "Starting"
  /\ ocrLog' = addOcrLog(ocrLog, <<"Worker initializing", lang>>)
  /\ inits' = {i \in inits : i.id # id}
                \cup {[id |-> id, lang |-> lang, pc |-> "createWorker",
                       worker |-> Len(workers) + 1, teardown |-> teardown]}

\* terminate() requested on worker w (0: no worker)
Terminated(ws, w) ==
  [k \in DOMAIN ws |-> IF k = w THEN [ws[k] EXCEPT !.status = "terminated"] ELSE ws[k]]

\* The language select of OcrPanel (OcrPanel.jsx:132-135) sets the language
\* and clears the cache; the re-render runs the effect of useOcr.js:113-120:
\* the cleanup of the previous effect, then initWorker(lang) up to its first
\* await.
ChangeLanguage(lang) ==
  /\ LogCleared
  /\ lang # ocrLanguage
  /\ nInits < MaxInits
  /\ ocrLanguage' = lang
  /\ ocrCache' = EmptyCache
  /\ nInits' = nInits + 1
  /\ started' = <<>>
  /\ returned' = <<>>
  /\ event' = NoEvent
  /\ IF workerRef # NoWorker
       THEN \* cleanup calls terminate(); initWorker calls it again and awaits
            /\ workers' = Terminated(workers, workerRef)
            /\ inits' = inits \cup {[id |-> nInits + 1, lang |-> lang,
                                     pc |-> "terminate", worker |-> NoWorker,
                                     teardown |-> "pending"]}
            /\ UNCHANGED <<workerReady, workerInitProgress, workerInitStatus, ocrLog>>
       ELSE /\ initWorkerCreate(nInits + 1, lang, "none")
            /\ workers' = Append(workers, [lang |-> lang, status |-> "creating"])
  /\ UNCHANGED <<clock, docVars, viewVars, nCalls, lastArrived, newestStarted, ocrLoading, ocrProgress, workerRef, workerReadyRef, currentLangRef,
                 pendingRef, isRunningRef, firstRender, timers, recognizing>>

\* (mutant: a rejected terminate() is not caught)
TeardownContinuesOnSuccess(ok) == ok
\* line 55: try { await terminate() } catch (_) {} goes on to line 56
\* whether terminate() resolved (ok) or rejected
TeardownContinues(ok) == TRUE

\* lines 55-67: the awaited terminate() settled
TerminateSettles(i, ok) ==
  /\ LogCleared
  /\ i \in inits
  /\ i.pc = "terminate"
  /\ started' = <<>>
  /\ returned' = <<>>
  /\ event' = NoEvent
  /\ IF TeardownContinues(ok)
       THEN /\ workerRef' = NoWorker
            /\ workerReadyRef' = FALSE
            /\ initWorkerCreate(i.id, i.lang, IF ok THEN "resolved" ELSE "rejected")
            /\ workers' = Append(workers, [lang |-> i.lang, status |-> "creating"])
       ELSE \* the rejection leaves initWorker
            /\ inits' = inits \ {i}
            /\ UNCHANGED <<workerRef, workerReadyRef, workers, workerReady,
                           workerInitProgress, workerInitStatus, ocrLog>>
  /\ UNCHANGED <<clock, docVars, viewVars, nCalls, lastArrived, newestStarted, ocrLanguage, ocrCache, ocrLoading, ocrProgress, currentLangRef,
                 pendingRef, isRunningRef, firstRender, nInits, timers, recognizing>>

\* (mutant: the queued request is cleared without being replayed)
ReplayPendingDropped(pending, tm) == tm
\* lines 96-102: hand a queued request to a zero-delay timer
ReplayPending(pending, tm) == IF pending # NoRequest THEN Append(tm, pending) ELSE tm

\* lines 88-102: createWorker resolved
CreateWorkerResolves(i) ==
  /\ LogCleared
  /\ i \in inits
  /\ i.pc = "createWorker"
  /\ workers' = [workers EXCEPT ![i.worker].status = "ready"]
  /\ workerRef' = i.worker
  /\ workerReadyRef' = TRUE
  /\ currentLangRef' = i.lang
  /\ ocrProgress' = 0
  /\ workerInitProgress' = 100
  /\ workerInitStatus' = "Ready"
  /\ workerReady' = TRUE
  /\ ocrLog' = addOcrLog(ocrLog, <<"Worker ready", i.lang>>)
  /\ timers' = ReplayPending(pendingRef, timers)
  /\ pendingRef' = NoRequest
  /\ inits' = inits \ {i}
  /\ started' = <<>>
  /\ returned' = <<>>
  /\ event' = NoEvent
  /\ UNCHANGED <<clock, docVars, viewVars, nCalls, lastArrived, newestStarted, ocrLanguage, ocrCache, ocrLoading, isRunningRef, firstRender,
                 nInits, recognizing>>

\* (mutant: the catch block of initWorker also empties the cache)
CreateWorkerRejectsClearsCache(i) ==
  /\ LogCleared
  /\ i \in inits
  /\ i.pc = "createWorker"
  /\ workers' = [workers EXCEPT ![i.worker].status = "failed"]
  /\ workerReadyRef' = FALSE
  /\ workerReady' = FALSE
  /\ workerInitProgress' = 0
  /\ workerInitStatus' = "Failed"
  /\ ocrLog' = addOcrLog(ocrLog, <<"Worker init failed", i.lang>>)
  /\ inits' = inits \ {i}
  /\ started' = <<>>
  /\ returned' = <<>>
  /\ event' = NoEvent
  /\ ocrCache' = EmptyCache
  /\ UNCHANGED <<clock, docVars, viewVars, nCalls, lastArrived, newestStarted, ocrLanguage, ocrLoading, ocrProgress, workerRef,
                 currentLangRef, pendingRef, isRunningRef, firstRender, nInits,
                 timers, recognizing>>
\* lines 103-109: createWorker rejected
CreateWorkerRejects(i) ==
  /\ LogCleared
  /\ i \in inits
  /\ i.pc = "createWorker"
  /\ workers' = [workers EXCEPT ![i.worker].status = "failed"]
  /\ workerReadyRef' = FALSE
  /\ workerReady' = FALSE
  /\ workerInitProgress' = 0
  /\ workerInitStatus' = "Failed"
  /\ ocrLog' = addOcrLog(ocrLog, <<"Worker init failed", i.lang>>)
  /\ inits' = inits \ {i}
  /\ started' = <<>>
  /\ returned' = <<>>
  /\ event' = NoEvent
  /\ UNCHANGED <<clock, docVars, viewVars, nCalls, lastArrived, newestStarted, ocrLanguage, ocrCache, ocrLoading, ocrProgress, workerRef,
                 currentLangRef, pendingRef, isRunningRef, firstRender, nInits,
                 timers, recognizing>>

(***************************************************************************)
(* runOcr: called by the application, by the replay timer, and continued   *)
(* when recognize() settles.                                               *)
(***************************************************************************)
\* App.triggerOcrForPage and the panel's buttons call the runOcr of the
\* latest render
CallRunOcr(req, ctxOk) ==
  LET st == runOcr(Core, LatestRender, req, ctxOk, "call")
      queued == st.returned # <<>> /\ st.returned[Len(st.returned)].queued
  IN
  /\ LogCleared
  /\ nCalls < MaxCalls
  /\ nCalls' = nCalls + 1
  /\ lastArrived' = IF isRunningRef /\ queued THEN req ELSE lastArrived
  /\ Commit(st)
  /\ UNCHANGED <<clock, docVars, viewVars, ocrLanguage, workerReady, workerInitProgress, workerInitStatus,
                 workerRef, workerReadyRef, currentLangRef, firstRender, workers,
                 inits, nInits, timers>>

\* line 101: the timer set by initWorker calls the runOcr initWorker closed
\* over, which is the runOcr of the first render
TimerFires(ctxOk) ==
  /\ LogCleared
  /\ timers # <<>>
  /\ ctxOk \in ContextOutcomes(Head(timers))
  /\ Commit(runOcr(Core, firstRender, Head(timers), ctxOk, "timer"))
  /\ timers' = Tail(timers)
  /\ UNCHANGED <<clock, docVars, viewVars, nCalls, lastArrived, ocrLanguage, workerReady, workerInitProgress, workerInitStatus,
                 workerRef, workerReadyRef, currentLangRef, firstRender, workers,
                 inits, nInits>>

\* line 181: recognize() resolves; only a worker that was not terminated
\* answers
RecognizeResolves(n, text, ctxOk) ==
  /\ LogCleared
  /\ n \in 1..Len(recognizing)
  /\ workers[recognizing[n].worker].status = "ready"
  /\ text \in RawTexts(recognizing[n].req.canvas, workers[recognizing[n].worker].lang)
  /\ lastArrived' = NoRequest
  /\ Commit(runOcrResolved([Core EXCEPT !.recognizing = RemoveAt(@, n)],
                           recognizing[n], text, ctxOk))
  /\ UNCHANGED <<clock, docVars, viewVars, nCalls, ocrLanguage, workerReady, workerInitProgress, workerInitStatus,
                 workerRef, workerReadyRef, currentLangRef, firstRender, workers,
                 inits, nInits, timers>>

\* line 181: recognize() rejects
RecognizeRejects(n, ctxOk) ==
  /\ LogCleared
  /\ n \in 1..Len(recognizing)
  /\ lastArrived' = NoRequest
  /\ Commit(runOcrRejected([Core EXCEPT !.recognizing = RemoveAt(@, n)],
                           recognizing[n], ctxOk))
  /\ UNCHANGED <<clock, docVars, viewVars, nCalls, ocrLanguage, workerReady, workerInitProgress, workerInitStatus,
                 workerRef, workerReadyRef, currentLangRef, firstRender, workers,
                 inits, nInits, timers>>

\* the panel's "clear log" button (useStore.js:83)
ClearOcrLog ==
  /\ ocrLog # <<>>
  /\ ocrLog' = <<>>
  /\ started' = <<>>
  /\ returned' = <<>>
  /\ event' = NoEvent
  /\ UNCHANGED <<clock, docVars, viewVars, nCalls, lastArrived, newestStarted, ocrLanguage, ocrCache, ocrLoading, ocrProgress, workerReady,
                 workerInitProgress, workerInitStatus, workerRef, workerReadyRef,
                 currentLangRef, pendingRef, isRunningRef, firstRender, workers,
                 inits, nInits, timers, recognizing>>

(***************************************************************************)
(* The logger passed to createWorker (useOcr.js:68-82).  A status is a     *)
(* sequence of words; a fraction is a number in thousandths.               *)
(***************************************************************************)
INIT_STATUS_MAP ==
  << [key |-> <<"loading", "tesseract", "core">>,       label |-> "Loading engine",        from |-> 0,  to |-> 20],
     [key |-> <<"initializing", "tesseract">>,          label |-> "Initializing engine",   from |-> 20, to |-> 40],
     [key |-> <<"initialized", "tesseract">>,           label |-> "Engine ready",          from |-> 40, to |-> 50],
     [key |-> <<"loading", "language", "traineddata">>, label |-> "Loading language data", from |-> 50, to |-> 85],
     [key |-> <<"loaded", "language", "traineddata">>,  label |-> "Language data loaded",  from |-> 85, to |-> 90],
     [key |-> <<"initializing", "api">>,                label |-> "Starting OCR engine",   from |-> 90, to |-> 99],
     [key |-> <<"initialized", "api">>,                 label |-> "OCR engine ready",      from |-> 99, to |-> 99] >>

\* the statuses and fractions the engine reports in the model
Statuses ==
  { <<"loading", "tesseract", "core">>,
    <<"Initializing", "tesseract">>,
    <<"worker", "loading", "language", "traineddata", "now">>,
    <<"initialized", "api", "loading", "tesseract", "core">>,
    <<"recognizing", "text">>,
    <<"Recognizing", "text">>,
    <<>> }

Thousand == 1000
Fractions == {-500, 25, 1000, 1500}

NotANumber == [isNumber |-> FALSE, value |-> 0]
Number(v) == [isNumber |-> TRUE, value |-> v]

\* String.prototype.toLowerCase, word by word
LowerWord(w) ==
  CASE w = "Initializing" -> "initializing"
    [] w = "Recognizing" -> "recognizing"
    [] OTHER -> w

toLowerCase(status) == [k \in DOMAIN status |-> LowerWord(status[k])]

\* String.prototype.includes
includes(status, key) ==
  \E i \in 1..(Len(status) - Len(key) + 1) :
     SubSeq(status, i, i + Len(key) - 1) = key

\* (mutant: the last matching phase is taken)
findLast(statusKey) ==
  LET hits == {p \in DOMAIN INIT_STATUS_MAP : includes(statusKey, INIT_STATUS_MAP[p].key)}
  IN IF hits = {} THEN 0 ELSE CHOOSE p \in hits : \A q \in hits : q <= p
\* INIT_STATUS_MAP.find(({ key }) => statusKey.includes(key)): the index of
\* the first phase whose key occurs in statusKey, 0 for undefined
find(statusKey) ==
  LET hits == {p \in DOMAIN INIT_STATUS_MAP : includes(statusKey, INIT_STATUS_MAP[p].key)}
  IN IF hits = {} THEN 0 ELSE CHOOSE p \in hits : \A q \in hits : p <= q

\* Math.round of numer / denom (denom > 0): the nearest integer, halves up
Round(numer, denom) == (2 * numer + denom) \div (2 * denom)

\* Math.max(0, Math.min(1, progress)), in thousandths
Clamp01(f) == IF f < 0 THEN 0 ELSE IF f > Thousand THEN Thousand ELSE f

\* line 77: a progress that is not a number counts as 1
sub(progress) == IF progress.isNumber THEN Clamp01(progress.value) ELSE Thousand

\* (mutant: the band is walked from its upper end downwards)
pctDescending(phase, progress) ==
  Round(phase.to * Thousand - (phase.to - phase.from) * sub(progress), Thousand)
\* line 78
pct(phase, progress) ==
  Round(phase.from * Thousand + (phase.to - phase.from) * sub(progress), Thousand)

\* line 70: Math.round(m.progress * 100)
recognitionPct(progress) == Round(progress.value * 100, Thousand)

\* the events of the model; a 'recognizing text' event carries a numeric
\* progress
LoggerEvents ==
  { m \in [status : Statuses,
           progress : {Number(f) : f \in Fractions} \cup {NotANumber}] :
       m.status = <<"recognizing", "text">> => m.progress.isNumber }

\* lines 68-82: the engine reports a status.  The statuses of the
\* initialization come from a worker that is being created, the progress of
\* a recognition from a worker that is executing a recognize() call and was
\* not told to terminate.
logger(m) ==
  /\ LogCleared
  /\ IF m.status = <<"recognizing", "text">>
       THEN \E n \in 1..Len(recognizing) : workers[recognizing[n].worker].status = "ready"
       ELSE \E w \in DOMAIN workers : workers[w].status = "creating"
  /\ event' = m
  /\ started' = <<>>
  /\ returned' = <<>>
  /\ IF m.status = <<"recognizing", "text">>
       THEN /\ ocrProgress' = recognitionPct(m.progress)
            /\ UNCHANGED <<workerInitProgress, workerInitStatus>>
       ELSE LET statusKey == toLowerCase(m.status)
                phase == find(statusKey)
            IN IF phase # 0
                 THEN /\ workerInitProgress' = pct(INIT_STATUS_MAP[phase], m.progress)
                      /\ workerInitStatus' = INIT_STATUS_MAP[phase].label
                      /\ UNCHANGED ocrProgress
                 ELSE UNCHANGED <<ocrProgress, workerInitProgress, workerInitStatus>>
  /\ UNCHANGED <<clock, docVars, viewVars, nCalls, lastArrived, newestStarted, ocrLanguage, ocrCache, ocrLoading, workerReady, ocrLog,
                 workerRef, workerReadyRef, currentLangRef, pendingRef, isRunningRef,
                 firstRender, workers, inits, nInits, timers, recognizing>>

Next ==
  \/ \E lang \in Langs : ChangeLanguage(lang)
  \/ \E i \in inits : \E ok \in BOOLEAN : TerminateSettles(i, ok)
  \/ \E i \in inits : CreateWorkerResolves(i)
  \/ \E i \in inits : CreateWorkerRejects(i)
  \/ \E req \in Requests : \E ctxOk \in ContextOutcomes(req) : CallRunOcr(req, ctxOk)
  \/ \E ctxOk \in BOOLEAN : TimerFires(ctxOk)
  \/ \E n \in 1..Len(recognizing) :
        \E text \in RawTexts(recognizing[n].req.canvas, workers[recognizing[n].worker].lang),
           ctxOk \in ContextOutcomes(pendingRef) :
             RecognizeResolves(n, text, ctxOk)
  \/ \E n \in 1..Len(recognizing) :
        \E ctxOk \in ContextOutcomes(pendingRef) : RecognizeRejects(n, ctxOk)
  \/ ClearOcrLog

Spec == Init /\ [][Next]_vars

(***************************************************************************)
(* The hook with an engine that is created once and stays ready: no        *)
(* language change, createWorker resolves.  Every callback the browser     *)
(* owes is eventually run: the continuation of createWorker, the replay    *)
(* timer, and the continuation of every recognize() call, which settles.   *)
(***************************************************************************)
RecognizeSettles ==
  \E n \in 1..Len(recognizing) :
     \E ctxOk \in ContextOutcomes(pendingRef) :
        \/ \E text \in RawTexts(recognizing[n].req.canvas, workers[recognizing[n].worker].lang) :
              RecognizeResolves(n, text, ctxOk)
        \/ RecognizeRejects(n, ctxOk)

ReadyNext ==
  \/ \E i \in inits : CreateWorkerResolves(i)
  \/ \E req \in Requests : \E ctxOk \in ContextOutcomes(req) : CallRunOcr(req, ctxOk)
  \/ \E ctxOk \in BOOLEAN : TimerFires(ctxOk)
  \/ RecognizeSettles
  \/ ClearOcrLog

ReadySpec ==
  /\ Init
  /\ [][ReadyNext]_vars
  /\ WF_vars(\E i \in inits : CreateWorkerResolves(i))
  /\ WF_vars(\E ctxOk \in BOOLEAN : TimerFires(ctxOk))
  /\ WF_vars(RecognizeSettles)
  /\ WF_vars(ClearOcrLog)

(***************************************************************************)
(* The engine lifecycle together with the status events of the engine:     *)
(* initWorker and the logger, without recognition requests.                *)
(***************************************************************************)
ProgressNext ==
  \/ \E m \in LoggerEvents : logger(m)
  \/ \E lang \in Langs : ChangeLanguage(lang)
  \/ \E i \in inits : \E ok \in BOOLEAN : TerminateSettles(i, ok)
  \/ \E i \in inits : CreateWorkerResolves(i)
  \/ \E i \in inits : CreateWorkerRejects(i)
  \/ ClearOcrLog

ProgressSpec == Init /\ [][ProgressNext]_vars

(***************************************************************************)
(* The log of the store alone (useStore.js:75-83): any sequence of         *)
(* addOcrLog and clearOcrLog calls.  An entry is the message with the      *)
(* time it was added.                                                      *)
(***************************************************************************)
Messages == {"note"}

AddOcrLog(message) ==
  /\ clock < MaxClock
  /\ ocrLog' = addOcrLog(ocrLog, <<message, clock>>)
  /\ clock' = clock + 1
  /\ started' = <<>>
  /\ returned' = <<>>
  /\ event' = NoEvent
  /\ UNCHANGED <<docVars, viewVars, nCalls, lastArrived, newestStarted, ocrLanguage, ocrCache, ocrLoading,
                 ocrProgress, workerReady, workerInitProgress, workerInitStatus,
                 workerRef, workerReadyRef, currentLangRef, pendingRef, isRunningRef,
                 firstRender, workers, inits, nInits, timers, recognizing>>

LogNext ==
  \/ \E message \in Messages : AddOcrLog(message)
  \/ ClearOcrLog

LogSpec == Init /\ [][LogNext]_vars

(***************************************************************************)
(* The hook with an engine that stays ready, asked to recognize canvases   *)
(* of many sizes: small ones, ones at the limit, and large ones.           *)
(***************************************************************************)
CanvasSizes ==
  { [width |-> 800,  height |-> 600],  [width |-> 2400, height |-> 2400],
    [width |-> 2401, height |-> 1],    [width |-> 1,    height |-> 2401],
    [width |-> 2400, height |-> 2401], [width |-> 5000, height |-> 3000],
    [width |-> 4800, height |-> 4800], [width |-> 3675, height |-> 2401],
    [width |-> 2191, height |-> 4382], [width |-> 9000, height |-> 4500] }

SizedRequests ==
  { [canvas |-> Surface(size, FirstDoc), pageNumber |-> 1, zoom |-> 1000,
     forceRun |-> TRUE] : size \in CanvasSizes }

PreprocessNext ==
  \/ \E i \in inits : CreateWorkerResolves(i)
  \/ \E req \in SizedRequests : \E ctxOk \in ContextOutcomes(req) : CallRunOcr(req, ctxOk)
  \/ \E ctxOk \in BOOLEAN : TimerFires(ctxOk)
  \/ RecognizeSettles
  \/ ClearOcrLog

PreprocessSpec == Init /\ [][PreprocessNext]_vars

(***************************************************************************)
(* The document loader (usePdfDocument.ts:20-97) next to the hook with an  *)
(* engine that stays ready.  Opening a file gives a fresh URL; the effect  *)
(* cancels the load of the previous URL and starts loadPdf, one action per *)
(* piece between awaits.  The application asks for recognition of the      *)
(* canvases of the document on display.                                    *)
(***************************************************************************)
\* handleFileChange (setPdfUrl); the effect's cleanup and loadPdf up to its
\* first await (lines 29-36 or 29-67)
OpenFile ==
  LET url == pdfUrl + 1 IN
  /\ url <= MaxDocs
  /\ pdfUrl' = url
  /\ pdfLoading' = TRUE
  /\ pdfError' = Null
  /\ ocrCache' = EmptyCache
  /\ loads' = { [l EXCEPT !.cancelled = TRUE] : l \in loads }
                \cup { [doc |-> url, cancelled |-> FALSE,
                        pc |-> IF currentDocRef # NoDoc THEN "destroy" ELSE "getDocument"] }
  /\ started' = <<>>
  /\ returned' = <<>>
  /\ event' = NoEvent
  /\ destroyed' = IF currentDocRef # NoDoc THEN destroyed \cup {currentDocRef} ELSE destroyed
  /\ UNCHANGED <<clock, viewVars, obtained, pdfDoc, currentDocRef, nCalls, lastArrived, newestStarted, ocrLanguage, ocrLoading,
                 ocrProgress, workerReady, workerInitProgress, workerInitStatus, ocrLog,
                 workerRef, workerReadyRef, currentLangRef, pendingRef, isRunningRef,
                 firstRender, workers, inits, nInits, timers, recognizing>>

\* lines 36-67: destroy() of the previous document settled, either way
DestroySettles(l) ==
  /\ l \in loads
  /\ l.pc = "destroy"
  /\ currentDocRef' = NoDoc
  /\ loads' = (loads \ {l}) \cup {[l EXCEPT !.pc = "getDocument"]}
  /\ started' = <<>>
  /\ returned' = <<>>
  /\ event' = NoEvent
  /\ UNCHANGED <<clock, viewVars, obtained, destroyed, pdfUrl, pdfDoc, pdfLoading, pdfError, nCalls, lastArrived, newestStarted,
                 ocrLanguage, ocrCache, ocrLoading,
                 ocrProgress, workerReady, workerInitProgress, workerInitStatus, ocrLog,
                 workerRef, workerReadyRef, currentLangRef, pendingRef, isRunningRef,
                 firstRender, workers, inits, nInits, timers, recognizing>>

\* (mutant: the load publishes its document without looking at cancelled)
GetDocumentResolvesUnchecked(l) ==
  /\ l \in loads
  /\ l.pc = "getDocument"
  /\ loads' = loads \ {l}
  /\ obtained' = obtained \cup {l.doc}
  /\ IF FALSE
       THEN /\ destroyed' = destroyed \cup {l.doc}
            /\ UNCHANGED <<currentDocRef, pdfDoc, pdfLoading, totalPages, currentPage>>
       ELSE /\ currentDocRef' = l.doc
            /\ pdfDoc' = l.doc
            /\ totalPages' = setPdfDoc(l.doc).totalPages
            /\ currentPage' = setPdfDoc(l.doc).currentPage
            /\ pdfLoading' = FALSE
            /\ UNCHANGED destroyed
  /\ started' = <<>>
  /\ returned' = <<>>
  /\ event' = NoEvent
  /\ UNCHANGED <<clock, zoom, pdfUrl, pdfError, nCalls, lastArrived, newestStarted,
                 ocrLanguage, ocrCache, ocrLoading,
                 ocrProgress, workerReady, workerInitProgress, workerInitStatus, ocrLog,
                 workerRef, workerReadyRef, currentLangRef, pendingRef, isRunningRef,
                 firstRender, workers, inits, nInits, timers, recognizing>>
\* lines 67-73 and 87-89: loadingTask.promise resolved
GetDocumentResolves(l) ==
  /\ l \in loads
  /\ l.pc = "getDocument"
  /\ loads' = loads \ {l}
  /\ obtained' = obtained \cup {l.doc}
  /\ IF l.cancelled
       THEN /\ destroyed' = destroyed \cup {l.doc}
            /\ UNCHANGED <<currentDocRef, pdfDoc, pdfLoading, totalPages, currentPage>>
       ELSE /\ currentDocRef' = l.doc
            /\ pdfDoc' = l.doc
            /\ totalPages' = setPdfDoc(l.doc).totalPages
            /\ currentPage' = setPdfDoc(l.doc).currentPage
            /\ pdfLoading' = FALSE
            /\ UNCHANGED destroyed
  /\ started' = <<>>
  /\ returned' = <<>>
  /\ event' = NoEvent
  /\ UNCHANGED <<clock, zoom, pdfUrl, pdfError, nCalls, lastArrived, newestStarted,
                 ocrLanguage, ocrCache, ocrLoading,
                 ocrProgress, workerReady, workerInitProgress, workerInitStatus, ocrLog,
                 workerRef, workerReadyRef, currentLangRef, pendingRef, isRunningRef,
                 firstRender, workers, inits, nInits, timers, recognizing>>

\* lines 74-89: loadingTask.promise rejected
GetDocumentRejects(l) ==
  /\ l \in loads
  /\ l.pc = "getDocument"
  /\ loads' = loads \ {l}
  /\ IF l.cancelled
       THEN UNCHANGED <<pdfError, pdfLoading>>
       ELSE /\ pdfError' = "Failed to load PDF"
            /\ pdfLoading' = FALSE
  /\ started' = <<>>
  /\ returned' = <<>>
  /\ event' = NoEvent
  /\ UNCHANGED <<clock, viewVars, obtained, destroyed, pdfUrl, pdfDoc, currentDocRef, nCalls, lastArrived, newestStarted,
                 ocrLanguage, ocrCache, ocrLoading,
                 ocrProgress, workerReady, workerInitProgress, workerInitStatus, ocrLog,
                 workerRef, workerReadyRef, currentLangRef, pendingRef, isRunningRef,
                 firstRender, workers, inits, nInits, timers, recognizing>>

DocNext ==
  \/ OpenFile
  \/ \E l \in loads : DestroySettles(l)
  \/ \E l \in loads : GetDocumentResolves(l)
  \/ \E l \in loads : GetDocumentRejects(l)
  \/ \E i \in inits : CreateWorkerResolves(i)
  \/ \E req \in RequestsOf(pdfDoc) : \E ctxOk \in ContextOutcomes(req) : CallRunOcr(req, ctxOk)
  \/ \E ctxOk \in BOOLEAN : TimerFires(ctxOk)
  \/ RecognizeSettles
  \/ ClearOcrLog

DocSpec == Init /\ [][DocNext]_vars

(***************************************************************************)
(* The hook with an engine that stays ready, when the application submits  *)
(* each request of SubmissionOrder once, in that order.                    *)
(***************************************************************************)
OrderNext ==
  \/ \E i \in inits : CreateWorkerResolves(i)
  \/ /\ nCalls < Len(SubmissionOrder)
     /\ \E ctxOk \in ContextOutcomes(SubmissionOrder[nCalls + 1]) :
           CallRunOcr(SubmissionOrder[nCalls + 1], ctxOk)
  \/ \E ctxOk \in BOOLEAN : TimerFires(ctxOk)
  \/ RecognizeSettles
  \/ ClearOcrLog

OrderSpec == Init /\ [][OrderNext]_vars

(***************************************************************************)
(* The whole hook together with the progress events of the recognitions.   *)
(***************************************************************************)
RecognitionEvents == {m \in LoggerEvents : m.status = <<"recognizing", "text">>}

RunNext ==
  \/ Next
  \/ \E m \in RecognitionEvents : logger(m)

RunSpec == Init /\ [][RunNext]_vars

(***************************************************************************)
(* The view part of the store alone (useStore.js:28-41): any sequence of   *)
(* setPdfDoc, setCurrentPage and setZoom calls.  The keyboard handler      *)
(* steps the zoom by 0.1 and the page by 1; other callers may pass any     *)
(* number.                                                                 *)
(***************************************************************************)
Documents == {NoDoc} \cup (FirstDoc..MaxDocs)

ZoomArguments == {zoom + 100, zoom - 100, 0, 6000}

PageArguments == {currentPage + 1, currentPage - 1, -1, 0} \cup (1..(numPages(MaxDocs) + 1))

\* what a setter call of the last step was: its name and argument
SetterCall(name, arg) == [setter |-> name, arg |-> arg]

StoreUnchanged ==
  UNCHANGED <<clock, pdfUrl, pdfLoading, pdfError, currentDocRef, loads, obtained, destroyed,
              nCalls, lastArrived, newestStarted, ocrLanguage, ocrCache, ocrLoading,
              ocrProgress, workerReady, workerInitProgress, workerInitStatus, ocrLog,
              workerRef, workerReadyRef, currentLangRef, pendingRef, isRunningRef,
              firstRender, workers, inits, nInits, timers, recognizing>>

SetPdfDoc(doc) ==
  /\ pdfDoc' = setPdfDoc(doc).pdfDoc
  /\ totalPages' = setPdfDoc(doc).totalPages
  /\ currentPage' = setPdfDoc(doc).currentPage
  /\ event' = SetterCall("setPdfDoc", doc)
  /\ started' = <<>>
  /\ returned' = <<>>
  /\ UNCHANGED zoom
  /\ StoreUnchanged

SetCurrentPage(page) ==
  /\ currentPage' = setCurrentPage(page, totalPages)
  /\ event' = SetterCall("setCurrentPage", page)
  /\ started' = <<>>
  /\ returned' = <<>>
  /\ UNCHANGED <<zoom, totalPages, pdfDoc>>
  /\ StoreUnchanged

SetZoom(z) ==
  /\ zoom' = setZoom(z)
  /\ event' = SetterCall("setZoom", z)
  /\ started' = <<>>
  /\ returned' = <<>>
  /\ UNCHANGED <<totalPages, currentPage, pdfDoc>>
  /\ StoreUnchanged

StoreNext ==
  \/ \E doc \in Documents : SetPdfDoc(doc)
  \/ \E page \in PageArguments : SetCurrentPage(page)
  \/ \E z \in ZoomArguments : SetZoom(z)

StoreSpec == Init /\ [][StoreNext]_vars

(***************************************************************************)
(* Properties.                                                             *)
(***************************************************************************)

\* C1  At most one recognize() call issued by runOcr is started and not yet
\* settled, in every reachable state.
AtMostOneInFlight == Len(recognizing) <= 1

\* a request arrived while a recognition was in flight and was queued
AtMostOneInFlightWitness ==
  /\ Len(recognizing) = 1
  /\ isRunningRef
  /\ pendingRef # NoRequest
  /\ \E k \in 1..Len(returned) : returned[k].via = "call"

\* C2  runOcr never calls recognize() on an engine handle that is not Ready:
\* every recognize() call of a step goes to a worker whose creation has
\* completed and on which terminate() has not been requested.
RecognizeOnlyOnReadyHandle ==
  \A k \in 1..Len(started) : started[k].status = "ready"

\* C3  At most one created-and-not-terminated worker exists, and the handle
\* reference is never replaced or dropped while the worker it names has not
\* been asked to terminate.
LiveWorkers == {w \in DOMAIN workers : workers[w].status = "ready"}

HandleReleasedOnlyAfterTerminate ==
  (workerRef # NoWorker /\ workerRef' # workerRef)
     => workers[workerRef].status = "terminated"

ExactlyOneLiveHandle ==
  /\ [](Cardinality(LiveWorkers) <= 1)
  /\ [][HandleReleasedOnlyAfterTerminate]_vars

\* C4  Latest-wins coalescing: when a recognition settles, the request its
\* finally block re-invokes is the last one the application submitted while
\* that recognition was in flight; no request submitted earlier is re-invoked
\* in its place.
Settles == \E k \in 1..Len(returned') : returned'[k].via = "settle"

Drained == {returned'[k].req : k \in {n \in 1..Len(returned') : returned'[n].via = "drain"}}
             \cup {started'[k].req : k \in {n \in 1..Len(started') : started'[n].via = "drain"}}

LatestWins ==
  [][(Settles /\ lastArrived # NoRequest /\ pendingRef # NoRequest)
        => Drained = {lastArrived}]_vars

\* C5  Replay after not-ready.  A request submitted while the engine is not
\* ready starts no recognition and is put in the slot; when createWorker
\* resolves, the request in the slot is handed to a timer and nothing is
\* recognized in that step; when the timer runs with the engine ready and
\* idle, exactly one recognize() call is made, with that request's canvas,
\* page, zoom and forceRun.
Invocations(via) ==
  {returned'[k].req : k \in {n \in 1..Len(returned') : returned'[n].via = via}}
    \cup {started'[k].req : k \in {n \in 1..Len(started') : started'[n].via = via}}

QueuedWhenNotReady ==
  \A k \in 1..Len(returned') :
     (returned'[k].via = "call" /\ returned'[k].queued /\ ~workerReadyRef)
        => started' = <<>> /\ pendingRef' = returned'[k].req

InitSucceeds ==
  \E i \in inits :
     i.pc = "createWorker" /\ i \notin inits' /\ workers'[i.worker].status = "ready"

ReplayIsDeferred ==
  (InitSucceeds /\ pendingRef # NoRequest)
     => /\ timers' = Append(timers, pendingRef)
        /\ pendingRef' = NoRequest
        /\ started' = <<>>

TimerRuns == timers # <<>> /\ timers' = Tail(timers) /\ Invocations("timer") # {}

ReadyAndIdle == workerReadyRef /\ workerRef # NoWorker /\ ~isRunningRef

ReplayRecognizesOnce ==
  (TimerRuns /\ ReadyAndIdle)
     => /\ Len(started') = 1
        /\ started'[1].req = Head(timers)
        /\ started'[1].via = "timer"

ReplayAfterNotReady ==
  [][QueuedWhenNotReady /\ ReplayIsDeferred /\ ReplayRecognizesOnce]_vars

\* C5 as amended: when the timer runs with the engine ready and idle, the
\* request gets exactly one recognition attempt: one recognize() call with
\* the request's canvas, page, zoom and forceRun, or, for a canvas that needs
\* downsampling, a preprocessing failure that ends the attempt with null and
\* no recognize() call.
PreprocessingFailed(via) ==
  /\ started' = <<>>
  /\ Len(returned') = 1
  /\ returned'[1].via = via
  /\ returned'[1].outcome = "null"
  /\ ~returned'[1].queued
  /\ NeedsDownsample(returned'[1].req.canvas)

ReplayAttemptsOnce ==
  (TimerRuns /\ ReadyAndIdle)
     => \/ /\ Len(started') = 1
           /\ started'[1].req = Head(timers)
           /\ started'[1].via = "timer"
        \/ /\ PreprocessingFailed("timer")
           /\ returned'[1].req = Head(timers)

ReplayAfterNotReadyAmended ==
  [][QueuedWhenNotReady /\ ReplayIsDeferred /\ ReplayAttemptsOnce]_vars

\* a request queued while the worker was initializing is being recognized,
\* started by the replay timer
ReplayAfterNotReadyWitness ==
  /\ Len(started) = 1
  /\ started[1].via = "timer"
  /\ nInits = 1
  /\ nCalls = 1
  /\ recognizing = started

\* C6  Cache hit means no engine work.  Every runOcr invocation (by the
\* application, by the replay timer or by the drain of a finally block) that
\* is not forced and whose fingerprint is in the store's cache when it is
\* made returns the cached text, calls recognize() for nothing, and leaves
\* the pending slot and the in-flight flag as they were.
ServedFromCache(r, via, cache) ==
  LET key == CacheKey(r.pageNumber, r.zoom, ocrLanguage) IN
  (~r.forceRun /\ key \in DOMAIN cache)
     => /\ \E k \in 1..Len(returned') :
              /\ returned'[k].req = r
              /\ returned'[k].via = via
              /\ returned'[k].outcome = "string"
              /\ returned'[k].value = cache[key]
        /\ \A k \in 1..Len(started') : started'[k].via # via

CacheHitMeansNoEngineWorkStep ==
  /\ \A r \in Invocations("call") :
        /\ ServedFromCache(r, "call", ocrCache)
        /\ (~r.forceRun /\ CacheKey(r.pageNumber, r.zoom, ocrLanguage) \in DOMAIN ocrCache)
              => (pendingRef' = pendingRef /\ isRunningRef' = isRunningRef)
  /\ \A r \in Invocations("timer") :
        /\ ServedFromCache(r, "timer", ocrCache)
        /\ (~r.forceRun /\ CacheKey(r.pageNumber, r.zoom, ocrLanguage) \in DOMAIN ocrCache)
              => (pendingRef' = pendingRef /\ isRunningRef' = isRunningRef)
  \* the drain runs after the settled call has written its result
  /\ \A r \in Invocations("drain") :
        /\ ServedFromCache(r, "drain", ocrCache')
        /\ (~r.forceRun /\ CacheKey(r.pageNumber, r.zoom, ocrLanguage) \in DOMAIN ocrCache')
              => (pendingRef' = NoRequest /\ ~isRunningRef')

CacheHitMeansNoEngineWork == [][CacheHitMeansNoEngineWorkStep]_vars

\* C7  Scenario C.  After a language change made while no recognition is in
\* flight, every runOcr call the application makes before the new engine is
\* Ready (while the old handle is torn down or the new one is created) is
\* put in the slot and starts no recognition; the request in the slot is
\* replayed when the new engine becomes Ready.
\* the initWorker call of the last language change is pending, and it is
\* the only one; the handle of the previous language has been told to
\* terminate
Reinitializing ==
  /\ nInits > 1
  /\ \E i \in inits : i.id = nInits /\ i.lang = ocrLanguage /\ inits = {i}
  /\ LiveWorkers = {}

QueuedDuringReinitialization ==
  (Reinitializing /\ recognizing = <<>> /\ ~isRunningRef)
     => \A r \in Invocations("call") :
           /\ started' = <<>>
           /\ pendingRef' = r

LanguageChangeQueues ==
  [][QueuedDuringReinitialization /\ ReplayIsDeferred]_vars

\* C8  Scenario D.  When createWorker rejects, the ready flag is false, init
\* progress is 0 with label 'Failed' and no new creation is started; while
\* the failure is displayed every runOcr invocation that is not a cache hit
\* is put in the slot and starts no recognition; the request in the slot is
\* replayed by the next initialization that succeeds.
InitFails ==
  \E i \in inits :
     i.pc = "createWorker" /\ i \notin inits' /\ workers'[i.worker].status = "failed"

FailurePublished ==
  InitFails
     => /\ ~workerReady'
        /\ ~workerReadyRef'
        /\ workerInitProgress' = 0
        /\ workerInitStatus' = "Failed"
        /\ Len(workers') = Len(workers)
        /\ inits' \subseteq inits
        /\ timers' = timers
        /\ started' = <<>>

QueuedWhileFailed ==
  workerInitStatus = "Failed"
     => /\ started' = <<>>
        /\ \A k \in 1..Len(returned') :
              returned'[k].via \in {"call", "timer", "drain"}
                 => \/ returned'[k].outcome = "string"
                    \/ returned'[k].queued /\ pendingRef' = returned'[k].req

InitFailureQueues ==
  [][FailurePublished /\ QueuedWhileFailed /\ ReplayIsDeferred]_vars

\* a request queued after a failed initialization has been handed to the
\* replay timer by the next initialization
InitFailureQueuesWitness ==
  /\ timers # <<>>
  /\ workerReady
  /\ \E w \in DOMAIN workers : workers[w].status = "failed"
  /\ nCalls > 0

\* C9  A failed recognition leaves the cache unchanged: when preprocessing
\* or recognize() fails, the cache after the run has completed equals the
\* cache before the run started.
\* the run whose recognize() was rejected in this step
RunFailed ==
  /\ recognizing # <<>>
  /\ returned' # <<>>
  /\ returned'[1].via = "settle"
  /\ returned'[1].outcome = "null"

\* a run started by the application was created in the render that holds
\* the store's cache of the moment of the call
CacheAsBeforeRunStarted ==
  [][(RunFailed /\ recognizing[1].via = "call")
        => ocrCache' = recognizing[1].cl.ocrCache]_vars

\* C9 as amended: a failure writes nothing.  The cache changes in a step
\* only by being cleared or by the result of the recognition that resolved
\* in that step; after a failed run the cache is the one the run started
\* with, or empty when it was cleared during the run; and a non-forced
\* request for a fingerprint not in the cache, made with the engine ready
\* and idle, is attempted again.
Failures ==
  {k \in 1..Len(returned') : returned'[k].outcome = "null" /\ ~returned'[k].queued}

OnlySuccessWrites ==
  \/ ocrCache' = ocrCache
  \/ ocrCache' = EmptyCache /\ returned' = <<>>
  \/ /\ recognizing # <<>>
     /\ returned' # <<>>
     /\ returned'[1].via = "settle"
     /\ returned'[1].outcome = "string"
     /\ ocrCache' = setOcrResult(ocrCache, recognizing[1].cacheKey, returned'[1].value)

FailureWritesNothing ==
  /\ (Failures # {} /\ \A k \in 1..Len(returned') : returned'[k].outcome # "string")
        => ocrCache' = ocrCache
  /\ (RunFailed /\ recognizing[1].via = "call")
        => ocrCache' \in {recognizing[1].cl.ocrCache, EmptyCache}

AttemptedAgain ==
  \A r \in Invocations("call") :
     (/\ ~r.forceRun
      /\ CacheKey(r.pageNumber, r.zoom, ocrLanguage) \notin DOMAIN ocrCache
      /\ ReadyAndIdle)
        => \/ \E k \in 1..Len(started') : started'[k].req = r /\ started'[k].via = "call"
           \/ PreprocessingFailed("call")

FailedRunLeavesCache ==
  [][OnlySuccessWrites /\ FailureWritesNothing /\ AttemptedAgain]_vars

\* a forced run on an already cached fingerprint has failed and the old
\* entry is still there
FailedRunLeavesCacheWitness ==
  /\ returned # <<>>
  /\ returned[1].via = "settle"
  /\ returned[1].outcome = "null"
  /\ returned[1].req.forceRun
  /\ CacheKey(returned[1].req.pageNumber, returned[1].req.zoom, ocrLanguage)
        \in DOMAIN ocrCache

\* C10  runOcr never rejects: whatever the engine does (recognize()
\* rejecting, preprocessing throwing, engine not ready, busy), the promise
\* runOcr returns settles with a string or with null, and each failure of
\* preprocessing or recognition yields null and one appended log entry.
ErrorEntries ==
  {k \in 1..Len(ocrLog') : ocrLog'[k][1] = "Error during OCR"}

NeverRejectsStep ==
  /\ \A k \in 1..Len(returned') : returned'[k].outcome \in {"string", "null"}
  /\ LogCleared => Cardinality(ErrorEntries) = Cardinality(Failures)
  /\ \A k \in Failures :
        <<"Error during OCR", returned'[k].req.pageNumber>>
           \in {ocrLog'[n] : n \in 1..Len(ocrLog')}

RunOcrNeverRejects == [][NeverRejectsStep]_vars

\* a rejected recognize() and a failed preprocessing both ended with null
\* in one step
RunOcrNeverRejectsWitness ==
  /\ Len(returned) = 2
  /\ returned[1].via = "settle"
  /\ returned[1].outcome = "null"
  /\ ~returned[1].queued
  /\ returned[2].via = "drain"
  /\ returned[2].outcome = "null"
  /\ ~returned[2].queued
  /\ Len(ocrLog) = 3

\* C11  Completion always releases the slot and drains.  In the step in
\* which a recognition settles, by success or by failure, recognition
\* progress is 0 and the in-flight flag and the loading flag are idle unless
\* the drain has started the next run; a request in the slot is taken out
\* and runOcr is invoked once, with exactly that request, in the same step
\* (the slot holds it again only if that invocation queued it); with an
\* empty slot nothing is invoked.
RunSettles ==
  /\ recognizing # <<>>
  /\ returned' # <<>>
  /\ returned'[1].via = "settle"

DrainInvocations ==
  Cardinality({k \in 1..Len(returned') : returned'[k].via = "drain"})
    + Cardinality({k \in 1..Len(started') : started'[k].via = "drain"})

CompletionDrainsStep ==
  RunSettles
     => /\ ocrProgress' = 0
        /\ isRunningRef' = (started' # <<>>)
        /\ ocrLoading' = (started' # <<>>)
        /\ recognizing' = started'
        /\ IF pendingRef # NoRequest
             THEN /\ DrainInvocations = 1
                  /\ Invocations("drain") = {pendingRef}
                  /\ \/ pendingRef' = NoRequest
                     \/ /\ pendingRef' = pendingRef
                        /\ \E k \in 1..Len(returned') :
                              returned'[k].via = "drain" /\ returned'[k].queued
             ELSE /\ DrainInvocations = 0
                  /\ pendingRef' = NoRequest
                  /\ started' = <<>>

CompletionDrains == [][CompletionDrainsStep]_vars

\* a recognition failed and the request that was waiting in the slot has
\* been started by the drain
CompletionDrainsWitness ==
  /\ Len(returned) = 1
  /\ returned[1].via = "settle"
  /\ returned[1].outcome = "null"
  /\ Len(started) = 1
  /\ started[1].via = "drain"
  /\ pendingRef = NoRequest
  /\ isRunningRef

\* C12  Single pending slot.  A runOcr call that is not a cache hit and
\* arrives while the engine is not ready or a recognition is in flight
\* returns null, starts no recognition and leaves exactly its own (canvas,
\* page, zoom, forceRun) in the slot; and in every state at most one request
\* is waiting to be executed.
Waiting == (IF pendingRef # NoRequest THEN 1 ELSE 0) + Len(timers)

OverwritesSlot ==
  \A r \in Invocations("call") :
     (/\ ~CacheHit(LatestRender, r, CacheKey(r.pageNumber, r.zoom, ocrLanguage))
      /\ (~workerReadyRef \/ workerRef = NoWorker \/ isRunningRef))
        => /\ started' = <<>>
           /\ Len(returned') = 1
           /\ returned'[1].outcome = "null"
           /\ returned'[1].queued
           /\ pendingRef' = r

AtMostOneWaiting == Waiting <= 1

SinglePendingSlot == [][OverwritesSlot]_vars /\ []AtMostOneWaiting

\* C13  Successful run result (Scenario A).  A runOcr call made with the
\* engine ready and idle for a fingerprint that is not cached makes exactly
\* one recognize() call; when recognize() resolves, the cache is the cache
\* of before with the fingerprint computed at admission mapped to the
\* recognized text without its leading and trailing blanks, and that text
\* is the value runOcr returns.
NotCached(r) == CacheKey(r.pageNumber, r.zoom, ocrLanguage) \notin DOMAIN ocrCache

InvokesEngineOnce ==
  \A r \in Invocations("call") :
     (ReadyAndIdle /\ NotCached(r))
        => /\ Len(started') = 1
           /\ started'[1].req = r
           /\ started'[1].cacheKey = CacheKey(r.pageNumber, r.zoom, ocrLanguage)
           /\ returned' = <<>>

\* r is t without its leading and trailing blanks
IsTrimOf(r, t) ==
  /\ r = <<>> \/ (r[1] # Blank /\ r[Len(r)] # Blank)
  /\ \E i \in 1..(Len(t) + 1) :
        /\ i + Len(r) - 1 <= Len(t)
        /\ r = SubSeq(t, i, i + Len(r) - 1)
        /\ \A k \in 1..Len(t) : (k < i \/ k > i + Len(r) - 1) => t[k] = Blank

RunSucceeds ==
  /\ RunSettles
  /\ returned'[1].outcome = "string"

SuccessWritesTrimmedText ==
  RunSucceeds
     => LET c == recognizing[1]
            key == CacheKey(c.req.pageNumber, c.req.zoom, c.cl.ocrLanguage)
        IN /\ returned'[1].req = c.req
           /\ \E t \in RawTexts(c.req.canvas, workers[c.worker].lang) :
                 IsTrimOf(returned'[1].value, t)
           /\ DOMAIN ocrCache' = DOMAIN ocrCache \cup {key}
           /\ ocrCache'[key] = returned'[1].value
           /\ \A k \in DOMAIN ocrCache : k # key => ocrCache'[k] = ocrCache[k]

SuccessfulRunResult == [][InvokesEngineOnce /\ SuccessWritesTrimmedText]_vars

\* C13 as amended: the call gets exactly one recognition attempt, which is
\* one recognize() call or, for a canvas that needs downsampling, a
\* preprocessing failure that returns null without a recognize() call; the
\* effect of a success is as stated.
AttemptsEngineOnce ==
  \A r \in Invocations("call") :
     (ReadyAndIdle /\ NotCached(r))
        => \/ /\ Len(started') = 1
              /\ started'[1].req = r
              /\ started'[1].cacheKey = CacheKey(r.pageNumber, r.zoom, ocrLanguage)
              /\ returned' = <<>>
           \/ /\ PreprocessingFailed("call")
              /\ returned'[1].req = r

SuccessfulRunResultAmended == [][AttemptsEngineOnce /\ SuccessWritesTrimmedText]_vars

\* a recognition has resolved with text between blanks; the cache holds the
\* text without the blanks under the request's fingerprint
SuccessfulRunResultWitness ==
  /\ returned # <<>>
  /\ returned[1].via = "settle"
  /\ returned[1].outcome = "string"
  /\ returned[1].value # <<>>
  /\ \E key \in DOMAIN ocrCache :
        /\ SubSeq(key, 1, 1) = Digits(returned[1].req.pageNumber)
        /\ ocrCache[key] = returned[1].value

\* C14  Cache distinctness.  A fingerprint gets an entry in the cache only
\* in a step in which a recognition admitted for that fingerprint resolves
\* (the cache starts empty); when the trimmed text of such a recognition is
\* empty the cache holds the empty string for the fingerprint, present and
\* not absent; and a non-forced call for a fingerprint whose entry is the
\* empty string is a cache hit: it returns the empty string and starts no
\* recognition.
EntryOnlyBySuccess ==
  \A key \in DOMAIN ocrCache' :
     key \notin DOMAIN ocrCache
        => RunSucceeds /\ key = recognizing[1].cacheKey

EmptyTextIsPresent ==
  (RunSucceeds /\ returned'[1].value = <<>>)
     => /\ recognizing[1].cacheKey \in DOMAIN ocrCache'
        /\ ocrCache'[recognizing[1].cacheKey] = <<>>

EmptyEntryIsHit ==
  \A r \in Invocations("call") :
     LET key == CacheKey(r.pageNumber, r.zoom, ocrLanguage) IN
     (~r.forceRun /\ key \in DOMAIN ocrCache /\ ocrCache[key] = <<>>)
        => /\ started' = <<>>
           /\ Len(returned') = 1
           /\ returned'[1].outcome = "string"
           /\ returned'[1].value = <<>>
           /\ ocrCache' = ocrCache

CacheDistinctness ==
  /\ ocrCache = EmptyCache
  /\ [][EntryOnlyBySuccess /\ EmptyTextIsPresent /\ EmptyEntryIsHit]_vars

\* a call has been answered from the cache with the empty string
CacheDistinctnessWitness ==
  /\ Len(returned) = 1
  /\ returned[1].via = "call"
  /\ returned[1].outcome = "string"
  /\ returned[1].value = <<>>
  /\ \E key \in DOMAIN ocrCache : ocrCache[key] = <<>>

\* C15  Force run (Scenario B).  A runOcr call with forceRun made with the
\* engine ready and idle makes one recognize() call, also when the
\* fingerprint is cached; when that recognition resolves, the cache maps
\* the fingerprint to the new trimmed text.
ForcedCallInvokesEngine ==
  \A r \in Invocations("call") :
     (r.forceRun /\ ReadyAndIdle)
        => /\ Len(started') = 1
           /\ started'[1].req = r
           /\ returned' = <<>>

ForcedSuccessReplaces ==
  (RunSucceeds /\ recognizing[1].req.forceRun)
     => /\ recognizing[1].cacheKey \in DOMAIN ocrCache'
        /\ ocrCache'[recognizing[1].cacheKey] = returned'[1].value
        /\ \E t \in RawTexts(recognizing[1].req.canvas, workers[recognizing[1].worker].lang) :
              IsTrimOf(returned'[1].value, t)

ForceRun == [][ForcedCallInvokesEngine /\ ForcedSuccessReplaces]_vars

\* C15 as amended: the forced call gets one recognition attempt whatever the
\* cache holds: one recognize() call, or, for a canvas that needs
\* downsampling, a preprocessing failure that returns null without a
\* recognize() call and leaves the cached value as it was.
ForcedCallAttemptsEngine ==
  \A r \in Invocations("call") :
     (r.forceRun /\ ReadyAndIdle)
        => \/ /\ Len(started') = 1
              /\ started'[1].req = r
              /\ returned' = <<>>
           \/ /\ PreprocessingFailed("call")
              /\ returned'[1].req = r
              /\ ocrCache' = ocrCache

ForceRunAmended == [][ForcedCallAttemptsEngine /\ ForcedSuccessReplaces]_vars

\* a forced call has started a recognition for a fingerprint that is cached
ForceRunWitness ==
  /\ Len(started) = 1
  /\ started[1].via = "call"
  /\ started[1].req.forceRun
  /\ started[1].cacheKey \in DOMAIN ocrCache

\* C17  The engine lifecycle never touches the cache.  Every step of
\* initWorker (the continuation after teardown, the start of a creation,
\* its success with the scheduling of the replay, its failure) leaves the
\* cache as it was; in the step of a language change, where the selector
\* empties the cache before initWorker starts, initWorker adds nothing.
InitWorkerSteps == inits' # inits

LifecycleKeepsCacheStep ==
  InitWorkerSteps
     => IF ocrLanguage' = ocrLanguage
          THEN ocrCache' = ocrCache
          ELSE ocrCache' = EmptyCache

LifecycleKeepsCache == [][LifecycleKeepsCacheStep]_vars

\* an initWorker call has just ended, in success or in failure, with
\* entries in the cache
LifecycleKeepsCacheWitness ==
  /\ ocrCache # EmptyCache
  /\ nInits = 2
  /\ ocrLog # <<>>
  /\ ocrLog[1][1] \in {"Worker ready", "Worker init failed"}

\* C18  Teardown failure is swallowed.  When the terminate() initWorker
\* awaits settles, by resolving or by rejecting, initWorker goes on: it
\* clears the handle reference and the readiness flag, publishes "not
\* ready" with progress 0 and asks createWorker for a worker of its
\* language.
TeardownSettles(i) == i \in inits /\ i.pc = "terminate" /\ i \notin inits'

TeardownProceedsStep ==
  \A i \in inits :
     TeardownSettles(i)
        => /\ workerRef' = NoWorker
           /\ ~workerReadyRef'
           /\ ~workerReady'
           /\ workerInitProgress' = 0
           /\ workerInitStatus' = "Starting"
           /\ Len(workers') = Len(workers) + 1
           /\ workers'[Len(workers')] = [lang |-> i.lang, status |-> "creating"]
           /\ \E j \in inits' :
                 /\ j.id = i.id
                 /\ j.lang = i.lang
                 /\ j.pc = "createWorker"
                 /\ j.worker = Len(workers')
                 /\ j.teardown \in {"resolved", "rejected"}
                 /\ inits' = (inits \ {i}) \cup {j}

TeardownFailureSwallowed == [][TeardownProceedsStep]_vars

\* terminate() rejected and the replacement worker has been asked for
TeardownFailureSwallowedWitness ==
  \E j \in inits :
     /\ j.pc = "createWorker"
     /\ j.teardown = "rejected"
     /\ workers[j.worker].status = "creating"
     /\ workerRef = NoWorker
     /\ ~workerReadyRef

\* C16  Drain terminates with an empty slot.  With an engine that stays
\* ready, recognitions that settle and callers that stop submitting, the
\* hook reaches and keeps a state with no recognition in flight, an empty
\* slot and no replay outstanding; and a request leaves the slot only by
\* being overwritten by a later invocation, by being handed to the replay
\* timer, or by the drain, which invokes runOcr with it; every invocation
\* by the timer or the drain ends in a run, a cached result, or the request
\* being in the slot again.
Quiet ==
  /\ recognizing = <<>>
  /\ ~isRunningRef
  /\ pendingRef = NoRequest
  /\ timers = <<>>

\* the invocation of r by via was admitted to a run, answered from the cache
\* or queued again
Handled(r, via) ==
  \/ \E k \in 1..Len(started') : started'[k].req = r /\ started'[k].via = via
  \/ \E k \in 1..Len(returned') :
        /\ returned'[k].req = r
        /\ returned'[k].via = via
        /\ \/ returned'[k].outcome = "string"
           \/ returned'[k].queued /\ pendingRef' = r
           \/ ~returned'[k].queued /\ isRunningRef' = FALSE

SlotLeavesByInvocation ==
  /\ (pendingRef # NoRequest /\ pendingRef' # pendingRef)
        => \/ /\ pendingRef' # NoRequest
              /\ \E k \in 1..Len(returned') :
                    returned'[k].queued /\ returned'[k].req = pendingRef'
           \/ timers' = Append(timers, pendingRef)
           \/ Handled(pendingRef, "drain")
  /\ (timers # <<>> /\ timers' = Tail(timers)) => Handled(Head(timers), "timer")

DrainTerminates == <>[]Quiet /\ [][SlotLeavesByInvocation]_vars

\* every call has been made, the last run has settled and nothing is left
\* to do
DrainTerminatesWitness ==
  /\ Quiet
  /\ nCalls = MaxCalls
  /\ inits = {}
  /\ returned # <<>>
  /\ returned[Len(returned)].via = "drain"

\* C19  Initialization progress banding.  For every status event other than
\* 'recognizing text' whose lower-cased status contains the key of a phase
\* of the table, init progress becomes the integer nearest to
\* from + (to - from) * clamp(fraction, 0, 1) of the first such phase (a
\* fraction that is not a number counts as 1), so it lies in the phase's
\* band [from, to], and the label becomes the phase's label; an event that
\* matches no phase changes neither init progress nor its label.
Matching(status) ==
  {p \in DOMAIN INIT_STATUS_MAP : includes(toLowerCase(status), INIT_STATUS_MAP[p].key)}

\* n is the integer nearest to x / Thousand, the upper one of two
NearestTo(n, x) == 2 * x - Thousand < 2 * Thousand * n /\ 2 * Thousand * n <= 2 * x + Thousand

Clamped(progress) ==
  IF ~progress.isNumber THEN Thousand
  ELSE IF progress.value < 0 THEN 0
  ELSE IF progress.value > Thousand THEN Thousand
  ELSE progress.value

InitEvent == event' # NoEvent /\ event'.status # <<"recognizing", "text">>

ProgressBandingStep ==
  InitEvent
     => IF Matching(event'.status) # {}
          THEN \E p \in Matching(event'.status) :
                  /\ \A q \in Matching(event'.status) : p <= q
                  /\ workerInitStatus' = INIT_STATUS_MAP[p].label
                  /\ workerInitProgress' >= INIT_STATUS_MAP[p].from
                  /\ workerInitProgress' <= INIT_STATUS_MAP[p].to
                  /\ NearestTo(workerInitProgress',
                               INIT_STATUS_MAP[p].from * Thousand
                                 + (INIT_STATUS_MAP[p].to - INIT_STATUS_MAP[p].from)
                                     * Clamped(event'.progress))
                  /\ ocrProgress' = ocrProgress
          ELSE /\ workerInitProgress' = workerInitProgress
               /\ workerInitStatus' = workerInitStatus
               /\ ocrProgress' = ocrProgress

ProgressBanding == [][ProgressBandingStep]_vars

\* a status that contains the keys of two phases, with fraction 0.025, has
\* been mapped into the band of the first phase of the table
ProgressBandingWitness ==
  /\ event # NoEvent
  /\ event.status = <<"initialized", "api", "loading", "tesseract", "core">>
  /\ event.progress = Number(25)
  /\ workerInitStatus = "Loading engine"
  /\ workerInitProgress = 1

\* C20  Recognition progress stays in range.  After every status event
\* 'recognizing text' with a numeric fraction, recognition progress is the
\* integer nearest to fraction * 100 clamped to [0, 100]; recognition
\* progress is an integer between 0 and 100 in every reachable state.
RecognitionProgressStep ==
  (event' # NoEvent /\ event'.status = <<"recognizing", "text">> /\ event'.progress.isNumber)
     => /\ ocrProgress' \in 0..100
        /\ \/ NearestTo(ocrProgress', event'.progress.value * 100)
           \/ ocrProgress' = 0 /\ event'.progress.value < 0
           \/ ocrProgress' = 100 /\ event'.progress.value > Thousand

RecognitionProgressInRange ==
  [](ocrProgress \in 0..100) /\ [][RecognitionProgressStep]_vars

\* C21  Band monotonicity.  In the phase table every phase has from <= to
\* and each phase ends no higher than the next one starts; so when two
\* status events follow each other in table order (the second one matches
\* the same or a later phase, and within the same phase carries a fraction
\* that is not smaller), init progress does not decrease.
BandsOrdered ==
  /\ \A p \in DOMAIN INIT_STATUS_MAP : INIT_STATUS_MAP[p].from <= INIT_STATUS_MAP[p].to
  /\ \A p \in DOMAIN INIT_STATUS_MAP :
        p + 1 \in DOMAIN INIT_STATUS_MAP
           => INIT_STATUS_MAP[p].to <= INIT_STATUS_MAP[p + 1].from

\* the first phase of the table that matches the status (0: none)
PhaseOf(m) ==
  IF m = NoEvent \/ m.status = <<"recognizing", "text">> \/ Matching(m.status) = {}
    THEN 0
    ELSE CHOOSE p \in Matching(m.status) : \A q \in Matching(m.status) : p <= q

InTableOrder(m1, m2) ==
  /\ PhaseOf(m1) # 0
  /\ PhaseOf(m2) # 0
  /\ \/ PhaseOf(m1) < PhaseOf(m2)
     \/ /\ PhaseOf(m1) = PhaseOf(m2)
        /\ m1.progress.isNumber
        /\ m2.progress.isNumber
        /\ m1.progress.value <= m2.progress.value

ProgressNeverDecreasesStep ==
  InTableOrder(event, event') => workerInitProgress' >= workerInitProgress

BandMonotonicity == []BandsOrdered /\ [][ProgressNeverDecreasesStep]_vars

\* an event of the second phase with fraction 0.025 has moved init progress
\* into that phase's band
BandMonotonicityWitness ==
  /\ PhaseOf(event) = 2
  /\ event.progress = Number(25)
  /\ workerInitProgress = 21
  /\ workerInitStatus = INIT_STATUS_MAP[2].label

\* C22  Bounded newest-first log.  After any sequence of addOcrLog and
\* clearOcrLog calls the log holds at most 50 entries; each addOcrLog puts
\* the new entry first and keeps the previous entries behind it in their
\* order, all of them when there were fewer than 50 and all but the last
\* (the oldest) one when there were 50.
LogAdded == clock' = clock + 1

NewestFirstStep ==
  LogAdded
     => /\ ocrLog' # <<>>
        /\ ocrLog'[1][2] = clock
        /\ ocrLog'[1][1] \in Messages
        /\ IF Len(ocrLog) < MaxLogEntries
             THEN Tail(ocrLog') = ocrLog
             ELSE Tail(ocrLog') = SubSeq(ocrLog, 1, MaxLogEntries - 1)

BoundedNewestFirstLog ==
  [](Len(ocrLog) <= MaxLogEntries) /\ [][NewestFirstStep]_vars

\* the log is full and its first entry, the one written at mount, has been
\* dropped as the oldest
BoundedNewestFirstLogWitness ==
  /\ Len(ocrLog) = MaxLogEntries
  /\ clock = MaxLogEntries + 1
  /\ ocrLog[MaxLogEntries][1] = "note"
  /\ ocrLog[1][2] = clock - 1


\* C23  Downsampling bound.  The surface handed to recognize() is the input
\* canvas itself when both its dimensions are at most 2400; otherwise its
\* dimensions are floor(width * r) and floor(height * r) with
\* r = min(2400 / width, 2400 / height), and so its larger dimension is at
\* most 2400.
\* floor(side * min(2400 / width, 2400 / height)) in exact arithmetic:
\* 2400 / width is the smaller ratio when height <= width
ExactFloor(side, canvas) ==
  IF canvas.height <= canvas.width
    THEN (side * MAX_OCR_DIM) \div canvas.width
    ELSE (side * MAX_OCR_DIM) \div canvas.height

DownsamplingBound ==
  \A n \in 1..Len(started) :
     LET canvas == started[n].req.canvas
         image == started[n].image
     IN IF canvas.width <= MAX_OCR_DIM /\ canvas.height <= MAX_OCR_DIM
          THEN image = canvas
          ELSE /\ image.width = ExactFloor(canvas.width, canvas)
               /\ image.height = ExactFloor(canvas.height, canvas)
               /\ image.width <= MAX_OCR_DIM
               /\ image.height <= MAX_OCR_DIM


\* C24  Fingerprint determinism.  The key runOcr computes for a request and
\* the key the panel computes for a view (a page shown at a zoom) are equal
\* exactly when the page numbers are equal, the zoom factors round to the
\* same two decimals and the language codes the two renders captured are
\* equal.
\* what the panel may show: currentPage and zoom of the store
Views ==
  [pageNumber : {1, 2, 11, 12}, zoom : {250, 996, 1000, 1004, 1006, 1010, 5000}]

\* OcrPanel.jsx:42, for a panel whose render captured language lang
PanelCacheKey(view, lang) == CacheKey(view.pageNumber, view.zoom, lang)

WrittenFromOpenedDocument ==
  RunSucceeds => recognizing[1].req.canvas.doc = pdfUrl

NoStaleDocumentText == [][WrittenFromOpenedDocument]_vars


\* C26  Cache key language matches the engine that produced the text.  When
\* a recognition resolves and its text is written into the cache, the
\* language code in the key it is written under is the language the worker
\* that recognized it was created for.
WrittenByEngineOfKeyLanguage ==
  RunSucceeds
     => /\ recognizing[1].cacheKey
             = CacheKey(recognizing[1].req.pageNumber, recognizing[1].req.zoom,
                        workers[recognizing[1].worker].lang)
        /\ recognizing[1].cacheKey \in DOMAIN ocrCache'

KeyLanguageMatchesEngine == [][WrittenByEngineOfKeyLanguage]_vars


\* C27  Bound language equals active language.  Whenever the engine is
\* ready and no initWorker call is pending, a handle is held and the worker
\* it names was created for the active language, which is also the language
\* recorded as bound.
BoundLanguageIsActive ==
  (workerReady /\ workerReadyRef /\ inits = {})
     => /\ workerRef # NoWorker
        /\ workers[workerRef].lang = ocrLanguage
        /\ currentLangRef = ocrLanguage

\* C28  Executed requests respect submission order.  A recognition is never
\* started for a request when one was already started for a request the
\* application submitted later; in particular not for the request replayed
\* by the timer of the ready transition.
StartsNoOlderRequest ==
  \A n \in 1..Len(started') : Place(started'[n].req) >= newestStarted

ExecutionFollowsSubmission == [][StartsNoOlderRequest]_vars

\* C29  Ready implies finished initialization display.  Whenever the
\* published ready flag is true the init progress is 100 with label 'Ready',
\* and no step in which the flag stays true changes the progress or the
\* label.
DisplayKeptWhileReady ==
  (workerReady /\ workerReady')
     => /\ workerInitProgress' = workerInitProgress
        /\ workerInitStatus' = workerInitStatus

ReadyShowsFinished ==
  /\ [](workerReady => (workerInitProgress = 100 /\ workerInitStatus = "Ready"))
  /\ [][DisplayKeptWhileReady]_vars

\* C30  Readiness flags agree with the handle.  At every suspension point
\* the published flag workerReady equals workerReadyRef, and workerReadyRef
\* is true only if a handle is held; and when an initWorker call has ended
\* in failure, no handle of a live worker is held while readiness is false.
FlagsAgree == workerReady = workerReadyRef

ReadyOnlyWithHandle == workerReadyRef => workerRef # NoWorker

NoLiveHandleAfterFailure ==
  InitFails
     => ~(/\ ~workerReadyRef'
          /\ workerRef' # NoWorker
          /\ workers'[workerRef'].status = "ready")

ReadinessAgreesWithHandle ==
  /\ [](FlagsAgree /\ ReadyOnlyWithHandle)
  /\ [][NoLiveHandleAfterFailure]_vars


\* C31  Loading indicator mirrors the in-flight flag.  In every reachable
\* state ocrLoading is true exactly when a recognition run is in flight
\* (isRunningRef is set and a recognize() call has not settled), and
\* recognition progress is 0 when no run is in flight.
RunInFlight == isRunningRef /\ recognizing # <<>>

LoadingMirrorsInFlight ==
  /\ isRunningRef <=> recognizing # <<>>
  /\ ocrLoading <=> RunInFlight
  /\ ~RunInFlight => ocrProgress = 0

\* a run has just ended while recognition progress was shown: the indicator
\* is off and the progress is back at 0
LoadingMirrorsInFlightWitness ==
  /\ returned # <<>>
  /\ returned[1].via = "settle"
  /\ ~ocrLoading
  /\ ~isRunningRef
  /\ ocrProgress = 0
  /\ event = NoEvent
  /\ nCalls = 1


\* C32  A superseded document load never publishes its result.  When a load
\* whose URL was replaced takes a step, the store's document, error and
\* loading flag stay as they are, and a document it obtained is destroyed;
\* and when no load is pending, the store's document is the one of the most
\* recent URL.
SupersededSteps == {l \in loads : l.cancelled /\ l \notin loads'}

SupersededPublishesNothing ==
  SupersededSteps # {}
     => /\ pdfDoc' = pdfDoc
        /\ pdfError' = pdfError
        /\ pdfLoading' = pdfLoading
        /\ \A l \in SupersededSteps :
              l.doc \in obtained' \ obtained => l.doc \in destroyed'

LatestDocumentShown == loads = {} => pdfDoc = pdfUrl

LatestDocumentShownUnlessFailed ==
  /\ (loads = {} /\ pdfError = Null) => pdfDoc = pdfUrl
  /\ (loads = {} /\ pdfError # Null) => (pdfDoc # pdfUrl /\ ~pdfLoading)
  /\ pdfDoc <= pdfUrl

WithinBounds ==
  /\ zoom >= MinZoom
  /\ zoom <= MaxZoom
  /\ currentPage >= 1
  /\ currentPage <= Max(1, totalPages)

SetPdfDocResets ==
  (event' # NoEvent /\ event'.setter = "setPdfDoc")
     => /\ currentPage' = 1
        /\ pdfDoc' = event'.arg
        /\ totalPages' = IF event'.arg = NoDoc THEN 0 ELSE numPages(event'.arg)

StoreBounds == []WithinBounds /\ [][SetPdfDocResets]_vars

\* with no document, a call asked for a page below 1: the current page is 1
\* although totalPages is 0; the zoom has reached its lower limit
StoreBoundsWitness ==
  /\ event # NoEvent
  /\ event.setter = "setCurrentPage"
  /\ event.arg < 1
  /\ pdfDoc = NoDoc
  /\ totalPages = 0
  /\ currentPage = 1
  /\ zoom = MinZoom
====
